---- MODULE Spec2Model ----
(***************************************************************************)
(* State-machine model of the EKS operations service:                      *)
(*   app/services/eks_operations.py  (session build, resource operations)  *)
(*   app/api/routes.py               (request handlers)                    *)
(*   app/utils/logger.py             (log_operation)                       *)
(*                                                                         *)
(* Scheduling.  Every route handler is an `async def` coroutine whose body *)
(* contains no `await`: get_eks_service(), the boto3 / eks-token calls and *)
(* the kubernetes client calls are all synchronous.  A handler therefore   *)
(* occupies the event loop from its first statement to its return, and the *)
(* variable `loop` names the handler that currently occupies it.           *)
(***************************************************************************)
EXTENDS Integers, Sequences, FiniteSets, TLC

(***************************************************************************)
(* Bounds                                                                  *)
(***************************************************************************)
NumRequests == 3

Requests == 1..NumRequests

(***************************************************************************)
(* Python values                                                           *)
(***************************************************************************)
None == [t |-> "NoneType"]
Str(s) == [t |-> "str", s |-> s]
PyInt(n) == [t |-> "int", n |-> n]
DateTime(iso) == [t |-> "datetime", iso |-> iso]
List(q) == [t |-> "list", q |-> q]
Dict(d) == [t |-> "dict", d |-> d]
EmptyDict == Dict(<<>>)

\* isinstance(x, dict) / isinstance(x, str)
IsDict(x) == x.t = "dict"
IsStr(x) == x.t = "str"

\* Python truth value of x (the operand of `not token`)
Truthy(x) ==
    CASE x.t = "NoneType" -> FALSE
      [] x.t = "str" -> Len(x.s) > 0
      [] x.t = "int" -> x.n # 0
      [] x.t = "list" -> Len(x.q) > 0
      [] x.t = "dict" -> DOMAIN x.d # {}
      [] x.t = "datetime" -> TRUE

\* hasattr(x, "get"): of the value shapes above only a dict has .get
HasGet(x) == IsDict(x)

\* x.get(k, default) on a dict
Get(x, k, default) == IF k \in DOMAIN x.d THEN x.d[k] ELSE default

\* s[:n]
Prefix(s, n) == SubSeq(s, 1, IF Len(s) < n THEN Len(s) ELSE n)

\* str(b) of a bool
StrBool(b) == IF b THEN "True" ELSE "False"

\* s.startswith(p)
StartsWith(s, p) == Len(s) >= Len(p) /\ SubSeq(s, 1, Len(p)) = p

Raise(type, msg) == [ok |-> FALSE, type |-> type, msg |-> msg]
Return(v) == [ok |-> TRUE, value |-> v]


(***************************************************************************)
(* Token Minter: EKSOperationsService._generate_token                      *)
(*   resp is the outcome of get_token(cluster_name=...): Return(value) or  *)
(*   Raise(type, msg) when the eks-token call itself raises.               *)
(***************************************************************************)
\* variant: the token is returned as soon as it is a string
_generate_token_unvalidated(resp) ==
    IF ~resp.ok THEN resp
    ELSE LET credential_response == resp.value IN
    IF ~IsDict(credential_response)
    THEN Raise("ValueError", "Expected dict from get_token()")
    ELSE LET status == Get(credential_response, "status", EmptyDict) IN
    IF ~HasGet(status)
    THEN Raise("ValueError", "Invalid ExecCredential response format")
    ELSE LET token == Get(status, "token", Str("")) IN
    IF ~IsStr(token)
    THEN Raise("ValueError", "Token is not a non-empty string")
    ELSE Return(token.s)

\* variant: a token minted earlier is returned in place of the one in the
\* response
_generate_token_stored(resp) ==
    IF ~resp.ok THEN resp
    ELSE LET credential_response == resp.value IN
    IF ~IsDict(credential_response)
    THEN Raise("ValueError", "Expected dict from get_token()")
    ELSE LET status == Get(credential_response, "status", EmptyDict) IN
    IF ~HasGet(status)
    THEN Raise("ValueError", "Invalid ExecCredential response format")
    ELSE LET token == Get(status, "token", None) IN
    IF ~Truthy(token)
    THEN Raise("ValueError", "No token in ExecCredential.status.token")
    ELSE IF ~IsStr(token)
    THEN Raise("ValueError", "Token is not a non-empty string")
    ELSE Return("k8s-aws4-AAA")

_generate_token(resp) ==
    IF ~resp.ok THEN resp                                   \* except Exception: raise
    ELSE LET credential_response == resp.value IN
    IF ~IsDict(credential_response)
    THEN Raise("ValueError", "Expected dict from get_token()")
    ELSE LET status == Get(credential_response, "status", EmptyDict) IN
    IF ~HasGet(status)                                      \* AttributeError
    THEN Raise("ValueError", "Invalid ExecCredential response format")
    ELSE LET token == Get(status, "token", None) IN
    IF ~Truthy(token)
    THEN Raise("ValueError", "No token in ExecCredential.status.token")
    ELSE IF ~IsStr(token)
    THEN Raise("ValueError", "Token is not a non-empty string")
    ELSE IF Len(token.s) = 0
    THEN Raise("ValueError", "Token is not a non-empty string")
    ELSE Return(token.s)

\* a record handed to the logger: level, message, and the Python value
\* rendered after the message (None when there is none).  The logger drops
\* the records below LOG_LEVEL (logger.py line 78).
LogRecord(level, msg, arg) == [level |-> level, msg |-> msg, arg |-> arg]

\* the records of _generate_token that concern the token or the response
\* (lines 143, 160-162, 167, 172) and of its caller (line 221), given the
\* outcome resp of get_token and the result res of _generate_token
TokenLog(resp, res) ==
    IF res.ok
    THEN LET token == res.value IN
         {LogRecord("INFO", "IAM bearer token generated successfully (length="
                        \o ToString(Len(token)) \o " chars, expires ~15 min)",
                    None),
          LogRecord("DEBUG", "Token prefix (first 20 chars): "
                        \o Prefix(token, 20) \o "...", None),
          LogRecord("DEBUG", "Token format check: starts with 'k8s-aws4' = "
                        \o StrBool(StartsWith(token, "k8s-aws4")), None),
          LogRecord("DEBUG", "Token extracted from ExecCredential response ("
                        \o ToString(Len(token)) \o " chars)", None)}
    ELSE IF ~resp.ok
    THEN {LogRecord("ERROR", "Token generation failed: " \o res.msg, None)}
    ELSE (IF res.msg = "No token in ExecCredential.status.token"
          THEN {LogRecord("ERROR", "ExecCredential response: ", resp.value)}
          ELSE {})
         \cup {LogRecord("ERROR", "Token extraction failed: " \o res.msg, None)}

\* line 260
ConfigLog(token) ==
    {LogRecord("DEBUG", "Auth header: Bearer <" \o ToString(Len(token))
                   \o "-char token>", None)}

\* line 290, in the except clause of _configure_clients
FailureLog(exc) == {LogRecord("ERROR", "Error: " \o exc.msg, None)}

(***************************************************************************)
(* base64.b64decode(s) (binascii.a2b_base64, non-strict) followed by       *)
(* bytes.decode('utf-8'): eks_operations.py line 226                       *)
(***************************************************************************)
B64Alphabet == "ABCDEFGHIJKLMNOPQRSTUVWXYZabcdefghijklmnopqrstuvwxyz0123456789+/"

CharAt(s, i) == SubSeq(s, i, i)

\* the alphabet as a table from character to position
B64Index ==
    [c \in {CharAt(B64Alphabet, i) : i \in 1..64} |->
        CHOOSE i \in 1..64 : CharAt(B64Alphabet, i) = c]

\* value 0..63 of an alphabet character, 64 for any other character
B64Value(c) == IF c \in DOMAIN B64Index THEN B64Index[c] - 1 ELSE 64

\* the decoding loop: i is the next input position, quad_pos the position in
\* the current group of four, leftchar the bits carried over, pads the run of
\* '=' seen, out the bytes produced so far
RECURSIVE a2b_base64(_, _, _, _, _, _)
a2b_base64(s, i, quad_pos, leftchar, pads, out) ==
    IF i > Len(s)
    THEN IF quad_pos # 0
         THEN Raise("binascii.Error",
                    IF quad_pos = 1 THEN "Invalid base64-encoded string"
                                    ELSE "Incorrect padding")
         ELSE Return(out)
    ELSE LET c == CharAt(s, i) IN
    IF c = "="
    THEN IF quad_pos >= 2 /\ quad_pos + pads + 1 >= 4
         THEN Return(out)
         ELSE a2b_base64(s, i + 1, quad_pos, leftchar,
                         IF quad_pos >= 2 THEN pads + 1 ELSE pads, out)
    ELSE LET v == B64Value(c) IN
    IF v >= 64
    THEN a2b_base64(s, i + 1, quad_pos, leftchar, pads, out)
    ELSE CASE quad_pos = 0 -> a2b_base64(s, i + 1, 1, v, 0, out)
           [] quad_pos = 1 -> a2b_base64(s, i + 1, 2, v % 16, 0,
                                  Append(out, leftchar * 4 + v \div 16))
           [] quad_pos = 2 -> a2b_base64(s, i + 1, 3, v % 4, 0,
                                  Append(out, leftchar * 16 + v \div 4))
           [] quad_pos = 3 -> a2b_base64(s, i + 1, 0, 0, 0,
                                  Append(out, leftchar * 64 + v))

b64decode(s) == a2b_base64(s, 1, 0, 0, 0, <<>>)

\* bytes.decode('utf-8'): the str is the sequence of its code points.  One-byte
\* and two-byte sequences are decoded; every other byte >= 128 is rejected
\* (lead bytes E0..F4 of longer sequences are outside the inputs used here).
RECURSIVE utf8_decode(_)
utf8_decode(bytes) ==
    IF bytes = <<>> THEN Return(<<>>)
    ELSE LET b == Head(bytes) IN
         IF b < 128
         THEN LET rest == utf8_decode(Tail(bytes)) IN
              IF rest.ok THEN Return(<<b>> \o rest.value) ELSE rest
         ELSE IF b >= 194 /\ b <= 223 /\ Len(bytes) >= 2
                 /\ bytes[2] >= 128 /\ bytes[2] <= 191
         THEN LET rest == utf8_decode(Tail(Tail(bytes))) IN
              IF rest.ok
              THEN Return(<<(b - 192) * 64 + (bytes[2] - 128)>> \o rest.value)
              ELSE rest
         ELSE Raise("UnicodeDecodeError", "invalid utf-8")

\* STEP 4 of _configure_clients: the try/except around the decode
DecodeCA(ca_cert_data) ==
    LET raw == b64decode(ca_cert_data) IN
    IF ~raw.ok THEN Raise("ValueError", "Invalid base64 CA certificate")
    ELSE LET text == utf8_decode(raw.value) IN
         IF ~text.ok THEN Raise("ValueError", "Invalid base64 CA certificate")
         ELSE text

\* the bytes ca_file.write(ca_cert) puts in a file opened with mode='w'
\* (lines 237-243): the str encoded in the file's text encoding, UTF-8
RECURSIVE utf8_encode(_)
utf8_encode(text) ==
    IF text = <<>> THEN <<>>
    ELSE LET c == Head(text) IN
         (IF c < 128 THEN <<c>>
          ELSE <<192 + (c \div 64), 128 + (c % 64)>>) \o utf8_encode(Tail(text))


(***************************************************************************)
(* Cluster Locator: EKSOperationsService._fetch_cluster_info               *)
(*   resp is the outcome of eks_client.describe_cluster(name=...).         *)
(***************************************************************************)
HasKey(x, k) == IsDict(x) /\ k \in DOMAIN x.d

\* variant: a missing field is reported as if the cluster did not exist
_fetch_cluster_info_untyped(resp) ==
    IF ~resp.ok THEN resp
    ELSE LET response == resp.value IN
    IF /\ HasKey(response, "cluster")
       /\ HasKey(response.d["cluster"], "endpoint")
       /\ HasKey(response.d["cluster"], "certificateAuthority")
       /\ HasKey(response.d["cluster"].d["certificateAuthority"], "data")
    THEN Return([endpoint |-> response.d["cluster"].d["endpoint"],
                 ca_data |-> response.d["cluster"].d["certificateAuthority"].d["data"]])
    ELSE Raise("ResourceNotFoundException", "No cluster found")

_fetch_cluster_info(resp) ==
    IF ~resp.ok THEN resp                                   \* except Exception: raise
    ELSE LET response == resp.value IN
    IF ~HasKey(response, "cluster") THEN Raise("KeyError", "cluster")
    ELSE LET cluster == response.d["cluster"] IN
    IF ~HasKey(cluster, "endpoint") THEN Raise("KeyError", "endpoint")
    ELSE IF ~HasKey(cluster, "certificateAuthority")
    THEN Raise("KeyError", "certificateAuthority")
    ELSE IF ~HasKey(cluster.d["certificateAuthority"], "data")
    THEN Raise("KeyError", "data")
    ELSE Return([endpoint |-> cluster.d["endpoint"],
                 ca_data |-> cluster.d["certificateAuthority"].d["data"]])

(***************************************************************************)
(* Inputs handed to the build by its collaborators                         *)
(***************************************************************************)
\* (endpoint, certificateAuthority.data) pairs a successful describe_cluster
\* returns: base64("CERT"), base64 of the bytes 43 C3 A9 (UTF-8 of "C" and
\* U+00E9), base64("CERT") with a stray character, base64("CERT") with its
\* padding missing, base64 of byte 0xFF
ClusterInputs ==
    {<<"https://abc.example", "Q0VSVA==">>,
     <<"https://def.example", "Q8Op">>,
     <<"https://abc.example", "Q0VS!VA==">>,
     <<"https://abc.example", "Q0VSVA">>,
     <<"https://def.example", "/w==">>}

ClusterDict(e, ca) ==
    Dict([cluster |-> Dict([endpoint |-> Str(e),
                            certificateAuthority |-> Dict([data |-> Str(ca)])])])

DescribeOutcomes ==
       {Raise("ResourceNotFoundException", "No cluster found"),
        Raise("EndpointConnectionError", "Could not connect to the endpoint URL"),
        Return(Dict([cluster |-> Dict([endpoint |-> Str("https://abc.example")])])),
        Return(Dict([cluster |->
              Dict([certificateAuthority |-> Dict([data |-> Str("Q0VSVA==")])])]))}
    \cup {Return(ClusterDict(c[1], c[2])) : c \in ClusterInputs}

ExecCredential(token) ==
    Dict([kind |-> Str("ExecCredential"),
          status |-> Dict([expirationTimestamp |-> Str("2026-01-21T10:30:00Z"),
                           token |-> token])])

TokenValues == {Str("k8s-aws4-AAA"), Str("k8s-aws4-BBBBBBBBBBBBBBBB"),
                Str("abc"), Str(""),
                None, PyInt(0), PyInt(5), List(<<"k8s-aws4-AAA">>)}

GetTokenOutcomes ==
       {Raise("NoCredentialsError", "Unable to locate credentials")}
    \cup {Return(v) : v \in {None, Str("k8s-aws4-AAA"), EmptyDict,
                             Dict([status |-> None]),
                             Dict([status |-> Str("k8s-aws4-AAA")]),
                             Dict([status |-> EmptyDict]),
                             Dict([kind |-> Str("ExecCredential")])}}
    \cup {Return(ExecCredential(tv)) : tv \in TokenValues}


\* V1Job objects read_namespaced_job returns for the job the requests name
V1Job(active, succeeded, failed, start_time, completion_time) ==
    [metadata |-> [name |-> Str("job-1"), namespace |-> Str("default")],
     status |-> [active |-> active, succeeded |-> succeeded, failed |-> failed,
                 start_time |-> start_time,
                 completion_time |-> completion_time]]

\* the Job as it progresses in the cluster: created, running, then completed
\* or failed; completed after two failed pods, with the active counter
\* present and zero; a pod failed while its replacement is active
JobStates ==
    <<V1Job(None, None, None, None, None),
      V1Job(PyInt(1), None, None, DateTime("2026-01-21T10:00:00+00:00"), None),
      V1Job(None, PyInt(1), None, DateTime("2026-01-21T10:00:00+00:00"),
            DateTime("2026-01-21T10:05:00+00:00")),
      V1Job(None, None, PyInt(1), DateTime("2026-01-21T10:00:00+00:00"), None),
      V1Job(PyInt(0), PyInt(1), PyInt(2), DateTime("2026-01-21T10:00:00+00:00"),
            DateTime("2026-01-21T10:05:00+00:00")),
      V1Job(PyInt(1), None, PyInt(1), DateTime("2026-01-21T10:00:00+00:00"),
            None)>>

(***************************************************************************)
(* Configuration (core/config.py) and application startup (main.py)        *)
(***************************************************************************)
\* values of EKS_CLUSTER_NAME and EKS_REGION in the environment; EKS_REGION
\* is empty only when it is set to the empty string (line 46)
SettingsValues ==
    {[eks_cluster_name |-> n, eks_region |-> g] :
        n \in {"", "demo-cluster"}, g \in {"", "us-east-1"}}

\* variant: only the cluster name is validated
validate_settings_name_only(s) ==
    IF ~Truthy(Str(s.eks_cluster_name))
    THEN Raise("ValueError", "EKS_CLUSTER_NAME environment variable is required")
    ELSE Return(None)

\* validate_settings, config.py lines 59-71
validate_settings(s) ==
    IF ~Truthy(Str(s.eks_cluster_name))
    THEN Raise("ValueError", "EKS_CLUSTER_NAME environment variable is required")
    ELSE IF ~Truthy(Str(s.eks_region))
    THEN Raise("ValueError", "EKS_REGION environment variable is required")
    ELSE Return(None)

(***************************************************************************)
(* State                                                                   *)
(***************************************************************************)
VARIABLES
    loop,               \* handler occupying the event loop, 0 when idle
    pc,                 \* pc[r]: position of handler r
    op,                 \* op[r]: the route handler r serves
    svc,                \* svc[r]: what get_eks_service() returned to r (0: nothing)
    _service_instance,  \* module global: 0 (None) or the id of the instance
    heap,               \* heap[i]: fields of the EKSOperationsService object i
    frame,              \* frame[r]: locals of the build run by handler r
    err,                \* err[r]: exception propagating in handler r
    result,             \* result[r]: value the service operation returned to r
    response,           \* response[r]: what handler r gave the framework
    calls,              \* number of calls made to each collaborator
    tmp_files,          \* temporary CA files present on disk
    sent,               \* requests that reached the cluster API server
    expired,            \* instances whose token the cluster no longer accepts
    rejected,           \* instances an operation saw rejected with 401/403
    entered_stale,      \* handlers that called get_eks_service() after a rejection
    builds,              \* builds[r]: builds started by handler r
    settings,            \* the Settings instance (config.py line 56)
    app,                 \* application state: starting, serving or failed at startup
    log,                 \* records handed to the logger by the handler now running
    last_failure,        \* step and kind of the latest failed build attempt, none after a success
    job,                 \* the Job as the cluster API server holds it
    last_status,         \* first get_job_status result since the Job last changed
    api_calls            \* api_calls[r]: kubernetes calls made by the operation of handler r

vars == <<loop, pc, op, svc, _service_instance, heap, frame, err, result,
          response, calls, tmp_files, sent, expired, rejected, entered_stale,
          builds, settings, app, log, last_failure, job, last_status,
          api_calls>>

Routes == {"create_job", "delete_job", "get_job_status",
           "create_namespace", "delete_namespace"}

\* the routes above and /health (main.py lines 93-107)
Endpoints == Routes \cup {"health_check"}

BuildPcs == {"fetch", "mint", "decode", "ca_file", "config", "clients", "assign"}

NoObject == [t |-> "unallocated"]
NoFrame == [t |-> "noframe"]
NoErr == [t |-> "noerr"]
NoResult == [t |-> "noresult"]
NoResponse == [t |-> "noresponse"]
NoFailure == [step |-> "none", type |-> "none"]
NoSnapshot == [result |-> NoResult, by |-> 0]

\* EKSOperationsService.__init__, lines 41-46
NewObject ==
    [eks_client |-> None, k8s_batch_api |-> None, k8s_core_api |-> None,
     _cluster_endpoint |-> None, _ca_cert_data |-> None, _token |-> None]

\* locals of _configure_clients and, while they run, of _fetch_cluster_info
\* (response) and _generate_token (credential_response); e is the exception
\* caught by `except ApiException as e` in a resource operation
NewFrame == [response |-> NoResult, credential_response |-> NoResult,
             ca_cert |-> None, ca_file |-> None, k8s_config |-> None,
             e |-> None]

Init ==
    /\ loop = 0
    /\ pc = [r \in Requests |-> "pending"]
    /\ op = [r \in Requests |-> "none"]
    /\ svc = [r \in Requests |-> 0]
    /\ _service_instance = 0
    /\ heap = [r \in Requests |-> NoObject]
    /\ frame = [r \in Requests |-> NoFrame]
    /\ err = [r \in Requests |-> NoErr]
    /\ result = [r \in Requests |-> NoResult]
    /\ response = [r \in Requests |-> NoResponse]
    /\ calls = [describe_cluster |-> 0, get_token |-> 0, load_kube_config |-> 0]
    /\ tmp_files = {}
    /\ sent = {}
    /\ expired = {}
    /\ rejected = {}
    /\ entered_stale = {}
    /\ builds = [r \in Requests |-> 0]
    /\ settings \in SettingsValues
    /\ app = [state |-> "starting"]
    /\ log = {}
    /\ last_failure = NoFailure
    /\ job = JobStates[1]
    /\ last_status = NoSnapshot
    /\ api_calls = [r \in Requests |-> <<>>]

(***************************************************************************)
(* Application startup: lifespan, main.py lines 26-60                      *)
(***************************************************************************)
\* validate_settings() is called once before any request is accepted; when
\* it raises, lifespan re-raises (line 58) and the application does not start
Lifespan ==
    /\ app.state = "starting"
    /\ LET res == validate_settings(settings) IN
       app' = IF res.ok THEN [state |-> "serving"]
                        ELSE [state |-> "failed", error |-> res]
    /\ UNCHANGED <<loop, pc, op, svc, _service_instance, heap, frame, err,
                   result, response, calls, tmp_files, sent, expired, rejected,
                   entered_stale, builds, settings, log, last_failure, job,
                   last_status,
                   api_calls>>

(***************************************************************************)
(* Request handlers (routes.py) and get_eks_service                        *)
(***************************************************************************)
\* variant: handlers run on worker threads, whatever the event loop does
CanRun_threads(r) == TRUE

\* An `async def` handler with no await (routes.py lines 95, 166, 232, 315,
\* 374) starts only on an idle event loop and keeps it until it returns
CanRun(r) == loop = 0

\* variant: every endpoint obtains the session first
NeedsSession_always(o) == TRUE

\* the handlers that call get_eks_service() (routes.py lines 123, 195, 268,
\* 341, 401); health_check does not
NeedsSession(o) == o \in Routes

\* first kubernetes call of each service operation; the body of health_check
FirstCall(o) ==
    CASE o = "health_check" -> "health_check"
      [] o = "create_job" -> "read_namespace"
      [] o = "delete_job" -> "delete_namespaced_job"
      [] o = "get_job_status" -> "read_namespaced_job"
      [] o = "create_namespace" -> "create_namespace"
      [] o = "delete_namespace" -> "delete_namespace"

\* the event loop starts the handler of a received request; requests are
\* numbered in the order their handlers are started.  The responses of the
\* handlers that returned have been written out by then.
StartHandler(r) ==
    /\ app.state = "serving"
    /\ pc[r] = "pending"
    /\ \A q \in Requests : q < r => pc[q] # "pending"
    /\ CanRun(r)
    /\ \E o \in Endpoints :
         /\ op' = [op EXCEPT ![r] = o]
         /\ pc' = [pc EXCEPT ![r] = IF NeedsSession(o) THEN "get_eks_service"
                                                       ELSE FirstCall(o)]
    /\ loop' = r
    /\ response' = [q \in Requests |-> NoResponse]
    /\ UNCHANGED <<svc, _service_instance, heap, frame, err, result, calls,
                   tmp_files, sent, expired, rejected, entered_stale, builds,
                   settings, app, log, last_failure, job, last_status,
                   api_calls>>

\* variant: an instance whose token has expired is replaced on the next call
BuildNeeded_proactive(instance) == instance = 0 \/ instance \in expired

\* get_eks_service line 653: `if _service_instance is None`
BuildNeeded(instance) == instance = 0

\* get_eks_service, lines 652-655: the test of the global; __init__ lines 41-46
GetEksService(r) ==
    /\ pc[r] = "get_eks_service"
    /\ entered_stale' = IF _service_instance \in rejected
                        THEN entered_stale \cup {r} ELSE entered_stale
    /\ IF BuildNeeded(_service_instance)
       THEN /\ heap' = [heap EXCEPT ![r] = NewObject]
            /\ frame' = [frame EXCEPT ![r] = NewFrame]
            /\ builds' = [builds EXCEPT ![r] = @ + 1]
            /\ pc' = [pc EXCEPT ![r] = "fetch"]
            /\ svc' = svc
       ELSE /\ svc' = [svc EXCEPT ![r] = _service_instance]
            /\ pc' = [pc EXCEPT ![r] = FirstCall(op[r])]
            /\ UNCHANGED <<heap, frame, builds>>
    /\ UNCHANGED <<loop, op, _service_instance, err, result, response, calls,
                   tmp_files, sent, expired, rejected, settings, app, log,
                   last_failure, job, last_status,
                   api_calls>>

\* variant: the global is bound to the object whether or not __init__ returned
Assigned_regardless(current, obj, constructed) == obj

\* value of the global after `_service_instance = EKSOperationsService()`
\* (line 654): the assignment takes place only when the constructor returns
Assigned(current, obj, constructed) == IF constructed THEN obj ELSE current

\* variant: a failure of describe_cluster is recorded and the build goes on
\* to the mint
BuildFails_continuing(r, exc) ==
    /\ _service_instance' = Assigned(_service_instance, r, FALSE)
    /\ log' = log \cup FailureLog(exc)
    /\ last_failure' = [step |-> pc[r], type |-> exc.type]
    /\ err' = [err EXCEPT ![r] = exc]
    /\ pc' = [pc EXCEPT ![r] = IF pc[r] = "fetch" THEN "mint" ELSE "raising"]

\* an exception leaves _configure_clients (lines 286-300), __init__ and
\* get_eks_service
BuildFails(r, exc) ==
    /\ _service_instance' = Assigned(_service_instance, r, FALSE)
    /\ log' = log \cup FailureLog(exc)
    /\ last_failure' = [step |-> pc[r], type |-> exc.type]
    /\ err' = [err EXCEPT ![r] = exc]
    /\ pc' = [pc EXCEPT ![r] = "raising"]

\* the same, the failing step having logged `records` before it raised
BuildFailsLogging(r, exc, records) ==
    /\ _service_instance' = Assigned(_service_instance, r, FALSE)
    /\ log' = log \cup records \cup FailureLog(exc)
    /\ last_failure' = [step |-> pc[r], type |-> exc.type]
    /\ err' = [err EXCEPT ![r] = exc]
    /\ pc' = [pc EXCEPT ![r] = "raising"]

\* variant: every failure is answered with 500
StatusCode_always500(exc) == 500

\* status of the HTTPException the handler raises: `except ApiException`
\* (routes.py lines 143-151: e.status or 500) or `except Exception` (lines
\* 152-157: 500)
StatusCode(exc) ==
    IF exc.type = "ApiException"
    THEN (IF exc.status # 0 THEN exc.status ELSE 500)
    ELSE 500

\* the except clauses of the handler.  The failed object and the frames die
\* with the exception.
HandlerExcept(r) ==
    /\ pc[r] = "raising"
    /\ response' = [response EXCEPT ![r] =
                       [kind |-> "HTTPException",
                        status_code |-> StatusCode(err[r])]]
    /\ err' = [err EXCEPT ![r] = NoErr]
    /\ frame' = [frame EXCEPT ![r] = NoFrame]
    /\ heap' = IF _service_instance = r THEN heap
               ELSE [heap EXCEPT ![r] = NoObject]
    /\ op' = [op EXCEPT ![r] = "none"]
    /\ pc' = [pc EXCEPT ![r] = "done"]
    /\ loop' = IF loop = r THEN 0 ELSE loop
    /\ api_calls' = [api_calls EXCEPT ![r] = <<>>]
    /\ log' = {}
    /\ UNCHANGED <<svc, _service_instance, result, calls, tmp_files, sent,
                   expired, rejected, entered_stale, builds, settings, app,
                   last_failure, job, last_status>>

\* the handler returns what the service operation gave it (routes.py line 141
\* and the like)
HandlerReturn(r) ==
    /\ pc[r] = "returning"
    /\ response' = [response EXCEPT ![r] = [kind |-> "return", body |-> result[r]]]
    /\ result' = [result EXCEPT ![r] = NoResult]
    /\ op' = [op EXCEPT ![r] = "none"]
    /\ pc' = [pc EXCEPT ![r] = "done"]
    /\ loop' = IF loop = r THEN 0 ELSE loop
    /\ api_calls' = [api_calls EXCEPT ![r] = <<>>]
    /\ log' = {}
    /\ UNCHANGED <<svc, _service_instance, heap, frame, err, calls, tmp_files,
                   sent, expired, rejected, entered_stale, builds, settings,
                   app, last_failure, job, last_status>>

(***************************************************************************)
(* Session Builder: EKSOperationsService._configure_clients, step by step  *)
(***************************************************************************)
\* STEP 1-2, lines 207-216: boto3 client, then _fetch_cluster_info
Fetch(r) ==
    /\ pc[r] = "fetch"
    /\ calls' = [calls EXCEPT !.describe_cluster = @ + 1]
    /\ \E out \in DescribeOutcomes :
         LET res == _fetch_cluster_info(out)
             h == [heap EXCEPT ![r].eks_client = Str("boto3.eks")]
         IN /\ frame' = [frame EXCEPT ![r].response = out]
            /\ IF res.ok
               THEN /\ heap' = [h EXCEPT
                                  ![r]._cluster_endpoint = res.value.endpoint,
                                  ![r]._ca_cert_data = res.value.ca_data]
                    /\ pc' = [pc EXCEPT ![r] = "mint"]
                    /\ UNCHANGED <<_service_instance, err, log, last_failure>>
               ELSE /\ BuildFails(r, res)
                    /\ heap' = h
    /\ UNCHANGED <<loop, op, svc, result, response, tmp_files, sent, expired,
                   rejected, entered_stale, builds, settings, app, job,
                   last_status,
                   api_calls>>

\* STEP 3, lines 218-221: _generate_token (the frame of _fetch_cluster_info
\* is gone by now)
Mint(r) ==
    /\ pc[r] = "mint"
    /\ calls' = [calls EXCEPT !.get_token = @ + 1]
    /\ \E out \in GetTokenOutcomes :
         LET res == _generate_token(out) IN
         /\ frame' = [frame EXCEPT ![r].response = NoResult,
                                   ![r].credential_response = out]
         /\ IF res.ok
            THEN /\ heap' = [heap EXCEPT ![r]._token = Str(res.value)]
                 /\ pc' = [pc EXCEPT ![r] = "decode"]
                 /\ log' = log \cup TokenLog(out, res)
                 /\ UNCHANGED <<_service_instance, err, last_failure>>
            ELSE /\ BuildFailsLogging(r, res, TokenLog(out, res))
                 /\ heap' = heap
    /\ UNCHANGED <<loop, op, svc, result, response, tmp_files, sent, expired,
                   rejected, entered_stale, builds, settings, app, job,
                   last_status,
                   api_calls>>

\* STEP 4, lines 223-230 (the frame of _generate_token is gone by now)
Decode(r) ==
    /\ pc[r] = "decode"
    /\ LET res == DecodeCA(heap[r]._ca_cert_data.s)
           f == [frame EXCEPT ![r].credential_response = NoResult]
       IN IF res.ok
          THEN /\ frame' = [f EXCEPT ![r].ca_cert = res.value]
               /\ pc' = [pc EXCEPT ![r] = "ca_file"]
               /\ UNCHANGED <<_service_instance, err, log, last_failure>>
          ELSE /\ BuildFails(r, res)
               /\ frame' = f
    /\ UNCHANGED <<loop, op, svc, heap, result, response, calls, tmp_files,
                   sent, expired, rejected, entered_stale, builds, settings,
                   app, job, last_status,
                   api_calls>>

\* name given by NamedTemporaryFile(prefix='eks_ca_', suffix='.crt') in build r
TempName(r) == "eks_ca_" \o ToString(r) \o ".crt"

\* STEP 5, lines 232-248: NamedTemporaryFile(delete=False), write, close.
\* created: the file was created; written: write() and close() succeeded.
CaFile(r) ==
    /\ pc[r] = "ca_file"
    /\ \E created \in BOOLEAN, written \in BOOLEAN :
         /\ written => created
         /\ tmp_files' = IF created
                         THEN tmp_files \cup
                              {[name |-> TempName(r),
                                content |-> IF written
                                            THEN utf8_encode(frame[r].ca_cert)
                                            ELSE <<>>]}
                         ELSE tmp_files
         /\ IF written
            THEN /\ frame' = [frame EXCEPT ![r].ca_file = TempName(r)]
                 /\ pc' = [pc EXCEPT ![r] = "config"]
                 /\ UNCHANGED <<_service_instance, err, log, last_failure>>
            ELSE /\ BuildFails(r, Raise("ValueError",
                                        "Cannot create CA certificate file"))
                 /\ frame' = frame
    /\ UNCHANGED <<loop, op, svc, heap, result, response, calls, sent, expired,
                   rejected, entered_stale, builds, settings, app, job,
                   last_status,
                   api_calls>>

\* variant: the separating space is missing
Credential_nospace(token) == "Bearer" \o token

\* line 256: the credential placed in the transport configuration
Credential(token) == "Bearer " \o token

\* STEP 6, lines 250-263: client.Configuration()
Config(r) ==
    /\ pc[r] = "config"
    /\ \E fine \in BOOLEAN :
         IF fine
         THEN /\ frame' = [frame EXCEPT ![r].k8s_config =
                    [host |-> heap[r]._cluster_endpoint.s,
                     ssl_ca_cert |-> frame[r].ca_file,
                     api_key |-> [authorization |-> Credential(heap[r]._token.s)],
                     api_key_prefix |-> [authorization |-> ""]]]
              /\ pc' = [pc EXCEPT ![r] = "clients"]
              /\ log' = log \cup ConfigLog(heap[r]._token.s)
              /\ UNCHANGED <<_service_instance, err, last_failure>>
         ELSE /\ BuildFails(r, Raise("ValueError", "Kubernetes config error"))
              /\ frame' = frame
    /\ UNCHANGED <<loop, op, svc, heap, result, response, calls, tmp_files,
                   sent, expired, rejected, entered_stale, builds, settings,
                   app, job, last_status,
                   api_calls>>

\* client.Configuration() as the library creates it, before lines 254-257
DefaultConfiguration ==
    [host |-> "http://localhost", ssl_ca_cert |-> "",
     api_key |-> [authorization |-> ""],
     api_key_prefix |-> [authorization |-> ""]]

\* variants: the sub-client is created without the api_client argument
BatchV1Api_default(api_client) ==
    [t |-> "BatchV1Api",
     api_client |-> [configuration |-> DefaultConfiguration, id |-> 0]]
CoreV1Api_default(api_client) ==
    [t |-> "CoreV1Api",
     api_client |-> [configuration |-> DefaultConfiguration, id |-> 0]]

ApiClient(k8s_config, r) == [configuration |-> k8s_config, id |-> r]
BatchV1Api(api_client) == [t |-> "BatchV1Api", api_client |-> api_client]
CoreV1Api(api_client) == [t |-> "CoreV1Api", api_client |-> api_client]

\* STEP 7, lines 265-275: reached counts the constructors that returned
\* (0: ApiClient raised, 1: BatchV1Api raised, 2: CoreV1Api raised, 3: all fine)
Clients(r) ==
    /\ pc[r] = "clients"
    /\ \E reached \in 0..3 :
         LET api_client == ApiClient(frame[r].k8s_config, r)
             h1 == IF reached >= 2
                   THEN [heap EXCEPT ![r].k8s_batch_api = BatchV1Api(api_client)]
                   ELSE heap
             h2 == IF reached >= 3
                   THEN [h1 EXCEPT ![r].k8s_core_api = CoreV1Api(api_client)]
                   ELSE h1
         IN /\ heap' = h2
            /\ IF reached = 3
               THEN /\ pc' = [pc EXCEPT ![r] = "assign"]
                    /\ UNCHANGED <<_service_instance, err, log, last_failure>>
               ELSE BuildFails(r, Raise("ValueError", "API client creation error"))
    /\ UNCHANGED <<loop, op, svc, frame, result, response, calls, tmp_files,
                   sent, expired, rejected, entered_stale, builds, settings,
                   app, job, last_status,
                   api_calls>>

\* get_eks_service lines 654-655: the constructor returned; assign and return
Assign(r) ==
    /\ pc[r] = "assign"
    /\ _service_instance' = Assigned(_service_instance, r, TRUE)
    /\ svc' = [svc EXCEPT ![r] = _service_instance']
    /\ last_failure' = NoFailure
    /\ frame' = [frame EXCEPT ![r] = NoFrame]
    /\ pc' = [pc EXCEPT ![r] = FirstCall(op[r])]
    /\ UNCHANGED <<loop, op, heap, err, result, response, calls, tmp_files,
                   sent, expired, rejected, entered_stale, builds, settings,
                   app, log, job, last_status,
                   api_calls>>

(***************************************************************************)
(* Resource operations (eks_operations.py lines 302-637)                   *)
(***************************************************************************)
\* value of the Authorization header the client derives from lines 256-257:
\* the api key alone when its prefix is empty
AuthHeader(k8s_config) ==
    IF k8s_config.api_key_prefix.authorization = ""
    THEN k8s_config.api_key.authorization
    ELSE k8s_config.api_key_prefix.authorization \o " "
             \o k8s_config.api_key.authorization

\* the request a sub-client puts on the wire
Request(api) ==
    [api |-> api.t,
     host |-> api.api_client.configuration.host,
     ssl_ca_cert |-> api.api_client.configuration.ssl_ca_cert,
     authorization |-> AuthHeader(api.api_client.configuration)]

\* the token is valid for 15 minutes (line 109): afterwards the cluster
\* rejects it
TokenExpires ==
    /\ _service_instance # 0
    /\ _service_instance \notin expired
    /\ expired' = expired \cup {_service_instance}
    /\ UNCHANGED <<loop, pc, op, svc, _service_instance, heap, frame, err,
                   result, response, calls, tmp_files, sent, rejected,
                   entered_stale, builds, settings, app, log, last_failure,
                   job, last_status,
                   api_calls>>

\* outcome of a call made through an attribute that is None: it raises
\* before anything is sent
NoClient == -1

\* HTTP status the cluster answers handler r with; 0 when the client raises
\* an ApiException that carries no HTTP status, no answer having been
\* received
Statuses(r, api) ==
    IF api = None THEN {NoClient}
    ELSE IF svc[r] \in expired THEN {401}
    ELSE {0, 200, 403, 404, 409, 500}

AuthRejection(status) == status \in {401, 403}

\* variant: a failed call discards the published session
ApiCall_resetting(r, api, status) ==
    /\ sent' = IF api = None \/ status = 0 THEN sent
               ELSE sent \cup {Request(api)}
    /\ rejected' = IF AuthRejection(status) THEN rejected \cup {svc[r]}
                   ELSE rejected
    /\ api_calls' = [api_calls EXCEPT ![r] =
                        Append(@, [method |-> pc[r], status |-> status])]
    /\ _service_instance' = IF status = 200 THEN _service_instance ELSE 0
    /\ UNCHANGED heap

\* one call through a sub-client of the instance handler r holds: the
\* operations read self.k8s_batch_api / self.k8s_core_api and assign no
\* attribute of self nor the global
ApiCall(r, api, status) ==
    /\ sent' = IF api = None \/ status = 0 THEN sent
               ELSE sent \cup {Request(api)}
    /\ rejected' = IF AuthRejection(status) THEN rejected \cup {svc[r]}
                   ELSE rejected
    /\ api_calls' = [api_calls EXCEPT ![r] =
                        Append(@, [method |-> pc[r], status |-> status])]
    /\ UNCHANGED <<_service_instance, heap>>

\* the service operation hands `value` back to the handler
Finish(r, value) ==
    /\ result' = [result EXCEPT ![r] = value]
    /\ pc' = [pc EXCEPT ![r] = "returning"]
    /\ UNCHANGED <<err, frame>>

\* reason phrase the cluster sends with a status
Reason(status) ==
    CASE status = 0 -> "SSLError"
      [] status = 401 -> "Unauthorized"
      [] status = 403 -> "Forbidden"
      [] status = 404 -> "Not Found"
      [] status = 409 -> "Conflict"
      [] status = 500 -> "Internal Server Error"

\* the exception a failed kubernetes call raises; with the attribute None
\* the call raises AttributeError instead
ApiException(status) ==
    IF status = NoClient
    THEN Raise("AttributeError", "'NoneType' object has no attribute")
    ELSE [ok |-> FALSE, type |-> "ApiException", status |-> status,
          reason |-> Reason(status)]

\* the reasons given at lines 440, 523 and 631 for the job and the namespace
\* the requests name
JobNotFound == "Job job-1 not found in namespace default"
NamespaceNotFound == "Namespace ns-1 not found"

\* variant: a 404 is turned into a server error
NotFoundReplaced_as500(exc, reason) ==
    IF exc.type = "ApiException" /\ exc.status = 404
    THEN [ok |-> FALSE, type |-> "ApiException", status |-> 500,
          reason |-> reason]
    ELSE exc

\* delete_job lines 435-443, get_job_status lines 518-526, delete_namespace
\* lines 626-634: a 404 is replaced by a new ApiException(404, reason), any
\* other exception is re-raised
NotFoundReplaced(exc, reason) ==
    IF exc.type = "ApiException" /\ exc.status = 404
    THEN [ok |-> FALSE, type |-> "ApiException", status |-> 404,
          reason |-> reason]
    ELSE exc

\* the kubernetes client raised e inside the operation and `raised` leaves
\* the operation: log_operation (logger.py lines 109-112) and the except
\* clauses of the operation log and re-raise
OpRaises(r, e, raised) ==
    /\ frame' = [frame EXCEPT ![r] = [NewFrame EXCEPT !.e = e]]
    /\ err' = [err EXCEPT ![r] = raised]
    /\ pc' = [pc EXCEPT ![r] = "raising"]
    /\ UNCHANGED result

\* health_check, main.py lines 98-107
HealthCheck(r) ==
    /\ pc[r] = "health_check"
    /\ Finish(r, Dict([status |-> Str("healthy"),
                       cluster |-> Str(settings.eks_cluster_name),
                       region |-> Str(settings.eks_region)]))
    /\ UNCHANGED <<loop, op, svc, _service_instance, heap, response, calls,
                   tmp_files, sent, expired, rejected, entered_stale, builds,
                   settings, app, log, last_failure, job, last_status,
                   api_calls>>

Created == Dict([status |-> Str("created")])
Success == Dict([status |-> Str("success")])

\* the cluster changes the Job.  This program observes the Job through
\* read_namespaced_job only, so a change is taken while a read is about to
\* be made.
JobChanges ==
    /\ \E r \in Requests : pc[r] = "read_namespaced_job"
    /\ \E i \in 2..Len(JobStates) :
         /\ job \in {JobStates[1], JobStates[2]}
         /\ JobStates[i] # job
         /\ job = JobStates[2] => i > 2
         /\ job' = JobStates[i]
    /\ last_status' = NoSnapshot
    /\ UNCHANGED <<loop, pc, op, svc, _service_instance, heap, frame, err,
                   result, response, calls, tmp_files, sent, expired, rejected,
                   entered_stale, builds, settings, app, log, last_failure,
                   api_calls>>

\* x or 0
Or0(x) == IF Truthy(x) THEN x ELSE PyInt(0)

\* x and x > 0
Positive(x) == Truthy(x) /\ x.n > 0

\* d.isoformat() if d else None
IsoFormat(d) == IF Truthy(d) THEN Str(d.iso) ELSE None

\* variant: the result names the request that asked
JobStatusResult_per_request(j) ==
    Dict([job_name |-> Str("job-" \o ToString(loop)),
          namespace |-> j.metadata.namespace,
          state |-> Str("unknown"),
          active |-> Or0(j.status.active),
          succeeded |-> Or0(j.status.succeeded),
          failed |-> Or0(j.status.failed),
          start_time |-> IsoFormat(j.status.start_time),
          completion_time |-> IsoFormat(j.status.completion_time)])

\* variant: the failed counter is looked at before the succeeded counter
JobStatusResult_failed_first(j) ==
    LET job_status == j.status
        job_state == IF Positive(job_status.failed) THEN "failed"
                     ELSE IF Positive(job_status.succeeded) THEN "completed"
                     ELSE IF Positive(job_status.active) THEN "running"
                     ELSE "unknown"
    IN Dict([job_name |-> j.metadata.name,
             namespace |-> j.metadata.namespace,
             state |-> Str(job_state),
             active |-> Or0(job_status.active),
             succeeded |-> Or0(job_status.succeeded),
             failed |-> Or0(job_status.failed),
             start_time |-> IsoFormat(job_status.start_time),
             completion_time |-> IsoFormat(job_status.completion_time)])

\* get_job_status lines 485-513: the dict made from the V1Job j
JobStatusResult(j) ==
    LET job_status == j.status
        job_state == IF Positive(job_status.succeeded) THEN "completed"
                     ELSE IF Positive(job_status.failed) THEN "failed"
                     ELSE IF Positive(job_status.active) THEN "running"
                     ELSE "unknown"
    IN Dict([job_name |-> j.metadata.name,
             namespace |-> j.metadata.namespace,
             state |-> Str(job_state),
             active |-> Or0(job_status.active),
             succeeded |-> Or0(job_status.succeeded),
             failed |-> Or0(job_status.failed),
             start_time |-> IsoFormat(job_status.start_time),
             completion_time |-> IsoFormat(job_status.completion_time)])

\* variant: the namespace is created after any failure of read_namespace
NamespaceMissing_any(status) == status # 200

\* create_job line 340: `if e.status == 404`
NamespaceMissing(status) == status = 404

\* variant: a 409 from create_namespace counts as the namespace being there
NamespaceCreated_or_exists(status) == status \in {200, 409}

\* create_job lines 342-343: self.create_namespace returns only when the
\* cluster accepted the creation; its exception is not caught
NamespaceCreated(status) == status = 200

\* create_job step 1, lines 336-345
ReadNamespace(r) ==
    /\ pc[r] = "read_namespace"
    /\ \E status \in Statuses(r, heap[svc[r]].k8s_core_api) :
         /\ ApiCall(r, heap[svc[r]].k8s_core_api, status)
         /\ IF status = 200
            THEN /\ pc' = [pc EXCEPT ![r] = "create_namespaced_job"]
                 /\ UNCHANGED <<result, err, frame>>
            ELSE IF NamespaceMissing(status)
            THEN /\ pc' = [pc EXCEPT ![r] = "auto_create_namespace"]
                 /\ UNCHANGED <<result, err, frame>>
            ELSE OpRaises(r, ApiException(status), ApiException(status))
    /\ UNCHANGED <<loop, op, svc, response, calls, tmp_files, expired,
                   entered_stale, builds, settings, app, log, last_failure,
                   job, last_status>>

\* create_job lines 341-343: self.create_namespace(namespace)
AutoCreateNamespace(r) ==
    /\ pc[r] = "auto_create_namespace"
    /\ \E status \in Statuses(r, heap[svc[r]].k8s_core_api) :
         /\ ApiCall(r, heap[svc[r]].k8s_core_api, status)
         /\ IF NamespaceCreated(status)
            THEN /\ pc' = [pc EXCEPT ![r] = "create_namespaced_job"]
                 /\ UNCHANGED <<result, err, frame>>
            ELSE OpRaises(r, ApiException(status), ApiException(status))
    /\ UNCHANGED <<loop, op, svc, response, calls, tmp_files, expired,
                   entered_stale, builds, settings, app, log, last_failure,
                   job, last_status>>

\* create_job step 3, lines 364-389
CreateNamespacedJob(r) ==
    /\ pc[r] = "create_namespaced_job"
    /\ \E status \in Statuses(r, heap[svc[r]].k8s_batch_api) :
         /\ ApiCall(r, heap[svc[r]].k8s_batch_api, status)
         /\ IF status = 200 THEN Finish(r, Created)
            ELSE OpRaises(r, ApiException(status), ApiException(status))
    /\ UNCHANGED <<loop, op, svc, response, calls, tmp_files, expired,
                   entered_stale, builds, settings, app, log, last_failure,
                   job, last_status>>

\* delete_job, lines 416-446
DeleteNamespacedJob(r) ==
    /\ pc[r] = "delete_namespaced_job"
    /\ \E status \in Statuses(r, heap[svc[r]].k8s_batch_api) :
         /\ ApiCall(r, heap[svc[r]].k8s_batch_api, status)
         /\ IF status = 200 THEN Finish(r, Success)
            ELSE OpRaises(r, ApiException(status),
                              NotFoundReplaced(ApiException(status),
                                               JobNotFound))
    /\ UNCHANGED <<loop, op, svc, response, calls, tmp_files, expired,
                   entered_stale, builds, settings, app, log, last_failure,
                   job, last_status>>

\* get_job_status, lines 474-529
ReadNamespacedJob(r) ==
    /\ pc[r] = "read_namespaced_job"
    /\ \E status \in Statuses(r, heap[svc[r]].k8s_batch_api) :
         /\ ApiCall(r, heap[svc[r]].k8s_batch_api, status)
         /\ IF status = 200
            THEN /\ Finish(r, JobStatusResult(job))
                 /\ last_status' = IF last_status = NoSnapshot
                                   THEN [result |-> JobStatusResult(job),
                                         by |-> r]
                                   ELSE last_status
            ELSE /\ UNCHANGED last_status
                 /\ OpRaises(r, ApiException(status),
                              NotFoundReplaced(ApiException(status),
                                               JobNotFound))
    /\ UNCHANGED <<loop, op, svc, response, calls, tmp_files, expired,
                   entered_stale, builds, settings, app, log, last_failure,
                   job>>

\* create_namespace, lines 551-586
CreateNamespace(r) ==
    /\ pc[r] = "create_namespace"
    /\ \E status \in Statuses(r, heap[svc[r]].k8s_core_api) :
         /\ ApiCall(r, heap[svc[r]].k8s_core_api, status)
         /\ IF status = 200 THEN Finish(r, Created)
            ELSE OpRaises(r, ApiException(status), ApiException(status))
    /\ UNCHANGED <<loop, op, svc, response, calls, tmp_files, expired,
                   entered_stale, builds, settings, app, log, last_failure,
                   job, last_status>>

\* delete_namespace, lines 608-637
DeleteNamespace(r) ==
    /\ pc[r] = "delete_namespace"
    /\ \E status \in Statuses(r, heap[svc[r]].k8s_core_api) :
         /\ ApiCall(r, heap[svc[r]].k8s_core_api, status)
         /\ IF status = 200 THEN Finish(r, Success)
            ELSE OpRaises(r, ApiException(status),
                          NotFoundReplaced(ApiException(status),
                                           NamespaceNotFound))
    /\ UNCHANGED <<loop, op, svc, response, calls, tmp_files, expired,
                   entered_stale, builds, settings, app, log, last_failure,
                   job, last_status>>

Next ==
    \/ Lifespan
    \/ \E r \in Requests : StartHandler(r)
    \/ \E r \in Requests : GetEksService(r)
    \/ \E r \in Requests : Fetch(r)
    \/ \E r \in Requests : Mint(r)
    \/ \E r \in Requests : Decode(r)
    \/ \E r \in Requests : CaFile(r)
    \/ \E r \in Requests : Config(r)
    \/ \E r \in Requests : Clients(r)
    \/ \E r \in Requests : Assign(r)
    \/ \E r \in Requests : HandlerExcept(r)
    \/ \E r \in Requests : ReadNamespace(r)
    \/ \E r \in Requests : AutoCreateNamespace(r)
    \/ \E r \in Requests : CreateNamespacedJob(r)
    \/ \E r \in Requests : DeleteNamespacedJob(r)
    \/ \E r \in Requests : ReadNamespacedJob(r)
    \/ \E r \in Requests : CreateNamespace(r)
    \/ \E r \in Requests : DeleteNamespace(r)
    \/ \E r \in Requests : HealthCheck(r)
    \/ \E r \in Requests : HandlerReturn(r)
    \/ TokenExpires
    \/ JobChanges

Spec == Init /\ [][Next]_vars

(***************************************************************************)
(* Properties                                                              *)
(***************************************************************************)
\* handler r is inside the constructor, or the constructor is raising
InBuild(r) == pc[r] \in BuildPcs \/ (pc[r] = "raising" /\ svc[r] = 0)

AllDone == \A r \in Requests : pc[r] = "done"

\* C1 (as stated): N handlers call get_eks_service() while nothing is
\* published; describe_cluster and get_token are each called once in total,
\* two builds are never in flight together, and every caller holds the same
\* instance.
C1_OneFetchOneMintInTotal ==
    /\ calls.describe_cluster <= 1
    /\ calls.get_token <= 1
    /\ Cardinality({r \in Requests : InBuild(r)}) <= 1
    /\ \A r, q \in Requests : svc[r] # 0 /\ svc[q] # 0 => svc[r] = svc[q]
    /\ AllDone => calls.describe_cluster = 1 /\ calls.get_token = 1

\* C1 (amended): two builds are never in flight together; every caller that
\* obtains an instance obtains the one published instance; a caller that
\* found an instance published starts no build; calls are made only by
\* builds, one describe_cluster and at most one get_token per build; and when
\* the first attempt succeeds describe_cluster and get_token are each called
\* exactly once however many callers follow.
C1_SingleFlightBuild ==
    /\ Cardinality({r \in Requests : InBuild(r)}) <= 1
    /\ \A r \in Requests : svc[r] # 0 => svc[r] = _service_instance
    /\ \A r \in Requests : builds[r] <= 1
    /\ \A r \in Requests : svc[r] # 0 /\ svc[r] # r => builds[r] = 0
    /\ calls.describe_cluster =
           Cardinality({r \in Requests : builds[r] = 1 /\ pc[r] # "fetch"})
    /\ calls.get_token <= calls.describe_cluster
    /\ \A r \in Requests :
          svc[r] = r /\ (\A q \in Requests : builds[q] = 1 => q = r)
             => calls.describe_cluster = 1 /\ calls.get_token = 1

\* every caller was served by the instance of the single, first attempt
C1_Witness ==
    /\ AllDone
    /\ \A r \in Requests : svc[r] = 1
    /\ calls.describe_cluster = 1
    /\ calls.get_token = 1

\* C2: a handler that calls get_eks_service() after an operation saw the
\* published session rejected (401/403) causes exactly one rebuild.
C2_RejectionCausesOneRebuild ==
    \A r \in Requests : r \in entered_stale => builds[r] = 1

\* C3: when a build fails nothing is published, the failed object and its
\* locals are kept nowhere, and the next get_eks_service() call starts a new
\* build from the cluster-info fetch with a fresh object: every build makes
\* its own describe_cluster call.
C3_FailedBuildPublishesNothing ==
    /\ \A r \in Requests : InBuild(r) /\ pc[r] # "assign" => _service_instance = 0
    /\ \A r \in Requests :
          pc[r] = "done" /\ svc[r] = 0 /\ builds[r] = 1
             => /\ heap[r] = NoObject
                /\ frame[r] = NoFrame
                /\ _service_instance # r
                /\ response[r] # NoResponse =>
                      response[r] = [kind |-> "HTTPException", status_code |-> 500]
    /\ \A r \in Requests :
          pc[r] = "fetch" => heap[r] = NewObject /\ frame[r] = NewFrame
    /\ calls.describe_cluster =
           Cardinality({r \in Requests : builds[r] = 1 /\ pc[r] # "fetch"})

\* a build failed, and the next caller is past its own describe_cluster call
C3_Witness ==
    \E r, q \in Requests :
        /\ r # q
        /\ pc[r] = "done" /\ svc[r] = 0 /\ builds[r] = 1
        /\ pc[q] = "mint"
        /\ calls.describe_cluster = 2

\* the sub-clients of instance o are set and bound to the endpoint, the CA
\* file and the token of build o
BoundToBuild(api, o) ==
    /\ api # None
    /\ api.api_client.id = o
    /\ api.api_client.configuration.host = heap[o]._cluster_endpoint.s
    /\ api.api_client.configuration.ssl_ca_cert = TempName(o)
    /\ api.api_client.configuration.api_key.authorization
           = "Bearer " \o heap[o]._token.s
    /\ \E f \in tmp_files :
          /\ f.name = TempName(o)
          /\ b64decode(heap[o]._ca_cert_data.s) = Return(f.content)

Complete(o) ==
    /\ heap[o] # NoObject
    /\ heap[o]._cluster_endpoint # None
    /\ heap[o]._ca_cert_data # None
    /\ heap[o]._token # None
    /\ BoundToBuild(heap[o].k8s_batch_api, o)
    /\ BoundToBuild(heap[o].k8s_core_api, o)
    /\ heap[o].k8s_batch_api.t = "BatchV1Api"
    /\ heap[o].k8s_core_api.t = "CoreV1Api"

\* C4: every instance a caller of get_eks_service() holds, and the published
\* instance, has both sub-clients set and bound to the endpoint, CA file and
\* token of its own single build.
C4_ObtainedInstanceComplete ==
    \A o \in ({svc[r] : r \in Requests} \cup {_service_instance}) \ {0} :
        Complete(o)

\* a caller holds an instance that another handler's build made
C4_Witness ==
    \E r \in Requests : svc[r] # 0 /\ svc[r] # r /\ pc[r] # "done"

\* C5: a handler that calls get_eks_service() after an operation saw the
\* published session rejected is not handed that session.
C5_RejectedSessionNotServed ==
    \A r \in Requests : r \in entered_stale /\ svc[r] # 0 => svc[r] \notin rejected

\* the one response shape _generate_token accepts: a dict whose status is a
\* dict whose token is a non-empty str
WellFormedCredential(resp) ==
    /\ resp.ok
    /\ HasKey(resp.value, "status")
    /\ HasKey(resp.value.d["status"], "token")
    /\ IsStr(resp.value.d["status"].d["token"])
    /\ resp.value.d["status"].d["token"].s # ""

Minted(r) == frame[r] # NoFrame /\ frame[r].credential_response # NoResult

\* C6: _generate_token stores a token only for a well-formed response, and
\* then exactly status.token; for every other response it raises and no
\* token is stored: never an empty string, None or a rendering of the wrapper.
C6_TokenOnlyFromWellFormedResponse ==
    \A r \in Requests : Minted(r) =>
        LET cr == frame[r].credential_response IN
        /\ pc[r] \in {"decode", "raising"}
        /\ pc[r] = "decode" =>
              /\ WellFormedCredential(cr)
              /\ heap[r]._token = cr.value.d["status"].d["token"]
        /\ ~WellFormedCredential(cr) =>
              /\ pc[r] = "raising"
              /\ err[r] # NoErr
              /\ heap[r]._token = None
        /\ WellFormedCredential(cr) => pc[r] = "decode"

\* get_token answered {} and the mint raised
C6_Witness ==
    \E r \in Requests :
        /\ Minted(r)
        /\ frame[r].credential_response = Return(EmptyDict)
        /\ pc[r] = "raising"
        /\ err[r] = Raise("ValueError", "No token in ExecCredential.status.token")

\* C7: no token lacking the 'k8s-aws4' prefix leaves the mint step or reaches
\* the transport configuration of a published session.
C7_PrefixEnforced ==
    /\ \A r \in Requests :
          heap[r] # NoObject /\ heap[r]._token # None
             => StartsWith(heap[r]._token.s, "k8s-aws4")
    /\ _service_instance # 0 =>
          StartsWith(heap[_service_instance].k8s_batch_api.api_client
                        .configuration.api_key.authorization,
                     "Bearer k8s-aws4")

\* the only credential in the configuration is 'Bearer ' + the token of obj
BearerOf(k8s_config, obj) ==
    /\ obj._token # None
    /\ k8s_config.api_key = [authorization |-> "Bearer " \o obj._token.s]
    /\ k8s_config.api_key_prefix = [authorization |-> ""]

\* C8: kubeconfig loading is never invoked; every transport configuration,
\* while being assembled or inside a sub-client, holds 'Bearer ' + the token
\* minted in the same build and nothing else; a build without a minted token
\* has no configuration and no sub-client.
C8_BearerTokenOnly ==
    /\ calls.load_kube_config = 0
    /\ \A r \in Requests :
          heap[r] # NoObject =>
             /\ frame[r] # NoFrame /\ frame[r].k8s_config # None
                   => BearerOf(frame[r].k8s_config, heap[r])
             /\ heap[r].k8s_batch_api # None
                   => BearerOf(heap[r].k8s_batch_api.api_client.configuration, heap[r])
             /\ heap[r].k8s_core_api # None
                   => BearerOf(heap[r].k8s_core_api.api_client.configuration, heap[r])
             /\ heap[r]._token = None
                   => /\ heap[r].k8s_batch_api = None
                      /\ heap[r].k8s_core_api = None
                      /\ frame[r] # NoFrame => frame[r].k8s_config = None
    /\ \A r \in Requests :
          pc[r] = "raising" /\ svc[r] = 0 => _service_instance = 0

\* an earlier build failed, and a later build has assembled its configuration
C8_Witness ==
    \E r, q \in Requests :
        /\ pc[r] = "done"
        /\ svc[r] = 0
        /\ builds[r] = 1
        /\ frame[q] # NoFrame
        /\ frame[q].k8s_config # None
        /\ calls.get_token = 2

\* C9: when a build fails at the transport configuration or at the client
\* construction, the temporary CA file it created is gone by the time the
\* failure is surfaced.
C9_TempFileRemovedOnFailure ==
    \A r \in Requests :
        /\ pc[r] = "raising"
        /\ err[r] \in {Raise("ValueError", "Kubernetes config error"),
                       Raise("ValueError", "API client creation error")}
        => ~ \E f \in tmp_files : f.name = TempName(r)

\* C10: every request sent through a sub-client carries 'Bearer ' + the token
\* of the published session's build and goes to the endpoint fetched in that
\* build; the two sub-clients share one transport configuration.
C10_RequestsCarrySessionCredential ==
    /\ \A q \in sent :
          /\ _service_instance # 0
          /\ q.authorization = "Bearer " \o heap[_service_instance]._token.s
          /\ q.host = heap[_service_instance]._cluster_endpoint.s
          /\ q.ssl_ca_cert = TempName(_service_instance)
    /\ _service_instance # 0 =>
          heap[_service_instance].k8s_batch_api.api_client
              = heap[_service_instance].k8s_core_api.api_client

\* both sub-clients of the session have sent a request
C10_Witness ==
    /\ \E q \in sent : q.api = "BatchV1Api"
    /\ \E q \in sent : q.api = "CoreV1Api"

\* RFC 4648 base64 text: groups of four alphabet characters, the last group
\* possibly ending in one or two '='
IsBase64(s) ==
    /\ Len(s) % 4 = 0
    /\ \A i \in 1..Len(s) :
          \/ CharAt(s, i) \in DOMAIN B64Index
          \/ /\ CharAt(s, i) = "="
             /\ i >= Len(s) - 1
             /\ i = Len(s) - 1 => CharAt(s, Len(s)) = "="

\* C11: a build whose describe_cluster CA value is not valid base64 does not
\* get past the decode step: it writes no CA file, assembles no transport
\* configuration and is never published.
C11_NonBase64Rejected ==
    \A r \in Requests :
        heap[r] # NoObject /\ heap[r]._ca_cert_data # None
            /\ ~IsBase64(heap[r]._ca_cert_data.s)
        => /\ pc[r] \notin {"ca_file", "config", "clients", "assign"}
           /\ _service_instance # r
           /\ ~ \E f \in tmp_files : f.name = TempName(r)
           /\ frame[r] # NoFrame => frame[r].k8s_config = None

\* base64.b64encode(bytes)
RECURSIVE b64encode(_)
b64encode(bytes) ==
    LET ch(v) == CharAt(B64Alphabet, v + 1) IN
    IF bytes = <<>> THEN ""
    ELSE IF Len(bytes) = 1
    THEN ch(bytes[1] \div 4) \o ch((bytes[1] % 4) * 16) \o "=="
    ELSE IF Len(bytes) = 2
    THEN ch(bytes[1] \div 4) \o ch((bytes[1] % 4) * 16 + (bytes[2] \div 16))
            \o ch((bytes[2] % 16) * 4) \o "="
    ELSE ch(bytes[1] \div 4) \o ch((bytes[1] % 4) * 16 + (bytes[2] \div 16))
            \o ch((bytes[2] % 16) * 4 + (bytes[3] \div 64)) \o ch(bytes[3] % 64)
            \o b64encode(SubSeq(bytes, 4, Len(bytes)))

\* C12: whenever the CA data is base64(x) for a byte sequence x, the decode
\* step does not fail and the CA file the build writes holds exactly x.
C12_RoundTripAllBytes ==
    \A r \in Requests :
        heap[r] # NoObject /\ heap[r]._ca_cert_data # None =>
            LET ca == heap[r]._ca_cert_data.s
                x == b64decode(ca)
            IN x.ok /\ b64encode(x.value) = ca
               => /\ ~(/\ pc[r] = "raising"
                       /\ err[r] = Raise("ValueError",
                                         "Invalid base64 CA certificate"))
                  /\ pc[r] = "config" =>
                        \E f \in tmp_files :
                            f.name = TempName(r) /\ f.content = x.value

ConfigurationMissing == settings.eks_cluster_name = "" \/ settings.eks_region = ""

Malformed(v) ==
    ~ /\ HasKey(v, "cluster")
      /\ HasKey(v.d["cluster"], "endpoint")
      /\ HasKey(v.d["cluster"], "certificateAuthority")
      /\ HasKey(v.d["cluster"].d["certificateAuthority"], "data")

Fetched(r) == frame[r] # NoFrame /\ frame[r].response # NoResult

\* C14: when describe_cluster returns a response lacking cluster.endpoint or
\* cluster.certificateAuthority.data the build fails with a KeyError, a kind
\* other than those of cluster-not-found and upstream-unavailable, which
\* keep their own kinds; no token is minted and nothing is published.  A
\* response holding both fields takes the build to the mint step.
C14_MalformedResponseOwnKind ==
    \A r \in Requests : Fetched(r) =>
        LET described == frame[r].response IN
        /\ described.ok /\ Malformed(described.value) =>
              /\ pc[r] = "raising"
              /\ err[r].type = "KeyError"
              /\ err[r].type \notin {"ResourceNotFoundException",
                                     "EndpointConnectionError"}
              /\ heap[r]._token = None
              /\ frame[r].credential_response = NoResult
              /\ _service_instance = 0
        /\ ~described.ok => pc[r] = "raising" /\ err[r] = described
        /\ described.ok /\ ~Malformed(described.value) => pc[r] = "mint"

\* describe_cluster answered without certificateAuthority and the build failed
C14_Witness ==
    \E r \in Requests :
        /\ Fetched(r)
        /\ frame[r].response.ok
        /\ ~HasKey(frame[r].response.value.d["cluster"], "certificateAuthority")
        /\ pc[r] = "raising"
        /\ err[r] = Raise("KeyError", "certificateAuthority")
        /\ calls.get_token = 0

\* C15: describe_cluster and get_token are called, and a build is started,
\* only inside the handler of a resource-operation request: never during
\* startup, never by health_check.  Once an instance is published and while
\* no authentication failure has been observed, no step starts a build or
\* calls describe_cluster or get_token, the published reference stays the
\* same, and every get_eks_service() call returns that instance.
C15_LazyBuildThenReuse ==
    [][ /\ (builds' # builds \/ calls' # calls) =>
              \E r \in Requests :
                  /\ loop = r
                  /\ op[r] \in Routes
                  /\ pc[r] \in BuildPcs \cup {"get_eks_service"}
                  /\ app.state = "serving"
        /\ _service_instance = 0 /\ _service_instance' # 0 =>
              \E r \in Requests :
                  op[r] \in Routes /\ pc[r] = "assign" /\ _service_instance' = r
        /\ _service_instance # 0 /\ rejected = {} =>
              /\ _service_instance' = _service_instance
              /\ builds' = builds
              /\ calls' = calls
              /\ \A r \in Requests :
                    pc[r] = "get_eks_service" /\ pc'[r] # "get_eks_service"
                       => svc'[r] = _service_instance /\ pc'[r] \notin BuildPcs
      ]_vars

\* the first request was a health check and built nothing; the second built
\* the session; the third was handed the instance of the second
C15_Witness ==
    /\ pc[1] = "done" /\ builds[1] = 0 /\ svc[1] = 0
    /\ svc[2] = 2
    /\ svc[3] = 2 /\ builds[3] = 0
    /\ calls.describe_cluster = 1
    /\ calls.get_token = 1
    /\ rejected = {}

\* positions of a handler inside a resource operation
OpPcs == {"read_namespace", "auto_create_namespace", "create_namespaced_job",
          "delete_namespaced_job", "read_namespaced_job", "create_namespace",
          "delete_namespace"}

AuthFailures == {ApiException(401), ApiException(403)}

\* C16: a step of a resource operation that succeeds or fails with a
\* non-authentication error leaves the session as it was: the attributes of
\* the instance the handler holds (_cluster_endpoint, _ca_cert_data, _token,
\* k8s_batch_api, k8s_core_api) and the published reference are the same
\* before and after, up to the handler's response.
C16_OperationsLeaveSessionUnchanged ==
    [][ \A r \in Requests :
            /\ svc[r] # 0
            /\ pc[r] \in OpPcs \cup {"raising", "returning"}
            /\ pc'[r] # pc[r]
            /\ err[r] \notin AuthFailures
            /\ err'[r] \notin AuthFailures
            => /\ _service_instance = svc[r]
               /\ _service_instance' = _service_instance
               /\ heap'[svc[r]] = heap[svc[r]]
               /\ svc'[r] = svc[r]
      ]_vars

\* an operation run on the instance another handler built failed with 409
C16_Witness ==
    \E r \in Requests :
        /\ svc[r] # 0 /\ svc[r] # r
        /\ pc[r] = "raising"
        /\ err[r] = ApiException(409)

\* the kubernetes client raised a non-authentication ApiException in the
\* operation handler r runs
NonAuthFailure(r) ==
    /\ pc[r] = "raising"
    /\ svc[r] # 0
    /\ frame[r] # NoFrame
    /\ frame[r].e # None
    /\ frame[r].e.type = "ApiException"
    /\ frame[r].e \notin AuthFailures

\* C17 (as stated): the error an operation surfaces is the one the cluster
\* API returned, same status and same reason, for every non-authentication
\* failure, 404 on delete_job, get_job_status and delete_namespace included;
\* the session is left published.
C17_ErrorSurfacedUnchanged ==
    \A r \in Requests : NonAuthFailure(r) =>
        /\ err[r] = frame[r].e
        /\ _service_instance = svc[r]

\* C17 (amended): the surfaced error is an ApiException with the status the
\* cluster API returned; its reason is the cluster's too, except for a 404 on
\* delete_job, get_job_status and delete_namespace, where a new ApiException
\* carries a reason naming the missing job or namespace; the session is left
\* published.
C17_StatusSurfacedReasonReplacedOn404 ==
    \A r \in Requests : NonAuthFailure(r) =>
        /\ err[r].type = "ApiException"
        /\ err[r].status = frame[r].e.status
        /\ IF frame[r].e.status = 404
              /\ op[r] \in {"delete_job", "get_job_status", "delete_namespace"}
           THEN err[r].reason = (IF op[r] = "delete_namespace"
                                 THEN NamespaceNotFound ELSE JobNotFound)
           ELSE err[r] = frame[r].e
        /\ _service_instance = svc[r]

\* get_job_status was answered 404 "Not Found" and surfaces the new reason
C17_Witness ==
    \E r \in Requests :
        /\ NonAuthFailure(r)
        /\ op[r] = "get_job_status"
        /\ frame[r].e = ApiException(404)
        /\ err[r].status = 404
        /\ err[r].reason = JobNotFound

\* t occurs in text
Contains(text, t) ==
    \E i \in 1..(Len(text) - Len(t) + 1) : SubSeq(text, i, i + Len(t) - 1) = t

\* the tokens minted and held by an instance
LiveTokens ==
    {heap[o]._token.s :
        o \in {q \in Requests : heap[q] # NoObject /\ heap[q]._token # None}}

\* message of a propagating exception
Message(exc) == IF exc.type = "ApiException" THEN exc.reason ELSE exc.msg

\* C18: no log record and no message of a propagating error contains the
\* complete value of a minted token; what is logged of a token is its length
\* and a prefix strictly shorter than the token.
C18_TokenNeverRecordedInFull ==
    \A t \in LiveTokens :
        /\ \A rec \in log :
              /\ ~Contains(rec.msg, t)
              /\ HasKey(rec.arg, "status") /\ HasKey(rec.arg.d["status"], "token")
                    => rec.arg.d["status"].d["token"] # Str(t)
        /\ \A r \in Requests : err[r] # NoErr => ~Contains(Message(err[r]), t)

\* C19: the kind of a build failure identifies the step that failed: when a
\* build fails at one step after an earlier build failed at another step,
\* the two errors are of different kinds.
C19_FailedStepIdentifiedByKind ==
    [][ \A r \in Requests :
            /\ pc[r] \in BuildPcs
            /\ pc'[r] = "raising"
            /\ last_failure # NoFailure
            /\ last_failure.step # pc[r]
            => err'[r].type # last_failure.type
      ]_vars

StatusKeys == {"job_name", "namespace", "state", "active", "succeeded",
               "failed", "start_time", "completion_time"}

C21_MintOnlyAfterObservedRejection ==
    [][/\ (_service_instance # 0 /\ calls'.get_token # calls.get_token)
            => _service_instance \in rejected
       /\ expired' # expired
            => /\ calls' = calls
               /\ builds' = builds
               /\ _service_instance' = _service_instance
       /\ \A r \in Requests :
            (/\ pc[r] = "get_eks_service"
             /\ pc'[r] # pc[r]
             /\ _service_instance # 0
             /\ _service_instance \notin rejected)
            => /\ pc'[r] \notin BuildPcs
               /\ svc'[r] = _service_instance
               /\ calls' = calls]_vars

\* C21: a handler obtained, without building, an instance whose token has
\* expired and that no operation has seen rejected yet
C21_Witness ==
    \E r \in Requests :
        /\ pc[r] \in OpPcs
        /\ builds[r] = 0
        /\ svc[r] = _service_instance
        /\ svc[r] \in expired
        /\ svc[r] \notin rejected

\* C22: every run of _generate_token calls get_token once and stores the
\* token of the response that call returned; every run of
\* _configure_clients calls describe_cluster once, before the mint, and
\* stores the endpoint and the CA data of that response.  Neither call is
\* made outside its step.
C22_FreshMintAndFetchEveryBuild ==
    [][/\ \A r \in Requests :
            /\ (pc[r] = "mint" /\ pc'[r] # "mint") =>
                  /\ calls'.get_token = calls.get_token + 1
                  /\ pc'[r] = "decode" =>
                        LET cr == frame'[r].credential_response IN
                        /\ WellFormedCredential(cr)
                        /\ heap'[r]._token = cr.value.d["status"].d["token"]
            /\ (pc[r] = "fetch" /\ pc'[r] # "fetch") =>
                  /\ calls'.describe_cluster = calls.describe_cluster + 1
                  /\ pc'[r] = "mint" =>
                        LET described == frame'[r].response IN
                        /\ described.ok
                        /\ ~Malformed(described.value)
                        /\ heap'[r]._cluster_endpoint =
                              described.value.d["cluster"].d["endpoint"]
                        /\ heap'[r]._ca_cert_data =
                              described.value.d["cluster"]
                                  .d["certificateAuthority"].d["data"]
            /\ (pc[r] = "get_eks_service" /\ pc'[r] \in BuildPcs) =>
                  pc'[r] = "fetch"
       /\ calls'.get_token # calls.get_token
            => \E r \in Requests : pc[r] = "mint"
       /\ calls'.describe_cluster # calls.describe_cluster
            => \E r \in Requests : pc[r] = "fetch"]_vars

\* C22: a second build, begun after a first one had minted a token and
\* failed, described the cluster and minted again and holds the token of
\* its own get_token response
C22_Witness ==
    \E r \in Requests :
        /\ pc[r] = "decode"
        /\ calls.describe_cluster >= 2
        /\ calls.get_token >= 2
        /\ frame[r].credential_response =
              Return(ExecCredential(Str("k8s-aws4-BBBBBBBBBBBBBBBB")))
        /\ heap[r]._token = Str("k8s-aws4-BBBBBBBBBBBBBBBB")

\* the order of the build steps (lines 207-275, then the assignment at
\* line 654)
StepOrder == <<"fetch", "mint", "decode", "ca_file", "config", "clients",
               "assign">>

StepIndex(step) == CHOOSE i \in 1..Len(StepOrder) : StepOrder[i] = step

\* the step build r is at: the one about to run, or the one that failed
AtStep(r) == IF pc[r] \in BuildPcs THEN StepIndex(pc[r])
             ELSE StepIndex(last_failure.step)

\* C23: a build moves from a step to the one that follows it in the order
\* describe_cluster, get_token, CA decode, CA file, transport configuration,
\* sub-clients, or aborts at the step that failed: what a step produces
\* exists only once every step before it has succeeded, get_token is called
\* only in a build whose describe_cluster succeeded, a CA file is created
\* only after the mint and the decode succeeded, and an aborted build makes
\* no further call, creates no file and publishes nothing.
C23_StepsInOrderFirstFailureAborts ==
    [][\A r \in Requests :
         /\ InBuild(r) =>
               /\ heap[r]._cluster_endpoint # None <=> AtStep(r) > 1
               /\ heap[r]._ca_cert_data # None <=> AtStep(r) > 1
               /\ heap[r]._token # None <=> AtStep(r) > 2
               /\ AtStep(r) <= 3 => frame[r].ca_cert = None
               /\ AtStep(r) <= 4 => frame[r].ca_file = None
               /\ AtStep(r) < 4 => \A f \in tmp_files : f.name # TempName(r)
               /\ AtStep(r) <= 5 => frame[r].k8s_config = None
               /\ heap[r].k8s_batch_api # None => AtStep(r) >= 6
               /\ heap[r].k8s_core_api # None => AtStep(r) = 7
               /\ _service_instance # r
         /\ (pc[r] \in BuildPcs /\ pc'[r] # pc[r]) =>
               \/ pc'[r] = "raising"
               \/ /\ pc[r] # "assign"
                  /\ pc'[r] = StepOrder[StepIndex(pc[r]) + 1]
               \/ /\ pc[r] = "assign"
                  /\ pc'[r] \in OpPcs
                  /\ heap[r].k8s_batch_api # None
                  /\ heap[r].k8s_core_api # None
         /\ (pc[r] = "mint" /\ calls'.get_token # calls.get_token) =>
               /\ frame[r].response.ok
               /\ heap[r]._cluster_endpoint # None
         /\ (pc[r] = "ca_file" /\ tmp_files' # tmp_files) =>
               /\ heap[r]._token # None
               /\ frame[r].ca_cert # None
         /\ (InBuild(r) /\ pc[r] = "raising") =>
               /\ calls' = calls
               /\ tmp_files' = tmp_files
               /\ _service_instance' = _service_instance
               /\ pc'[r] \in {"raising", "done"}]_vars

\* C23: describe_cluster succeeded, the mint failed and the build is
\* aborting: no CA text, no CA file of this build, no sub-client
C23_Witness ==
    \E r \in Requests :
        /\ InBuild(r)
        /\ pc[r] = "raising"
        /\ heap[r]._cluster_endpoint # None
        /\ frame[r].credential_response # NoResult
        /\ heap[r]._token = None
        /\ frame[r].ca_cert = None
        /\ \A f \in tmp_files : f.name # TempName(r)
        /\ heap[r].k8s_batch_api = None

\* one kubernetes call and the status it was answered with
Call(method, status) == [method |-> method, status |-> status]

\* C24: create_job calls read_namespace first and once; it calls
\* create_namespace exactly when read_namespace was answered 404; when
\* read_namespace fails with another status nothing more is sent and that
\* error leaves create_job.
C24_NamespaceReadFirstCreatedOnlyOn404 ==
    \A r \in Requests : op[r] = "create_job" =>
        LET c == api_calls[r] IN
        /\ pc[r] \in {"auto_create_namespace", "create_namespaced_job"}
              => c # <<>>
        /\ c # <<>> =>
              /\ c[1].method = "read_namespace"
              /\ \A i \in 2..Len(c) :
                    /\ c[i].method # "read_namespace"
                    /\ c[i].method = "auto_create_namespace"
                          => i = 2 /\ c[1].status = 404
              /\ c[1].status = 404 =>
                    IF Len(c) = 1 THEN pc[r] = "auto_create_namespace"
                    ELSE c[2].method = "auto_create_namespace"
              /\ c[1].status \notin {200, 404} =>
                    /\ Len(c) = 1
                    /\ pc[r] = "raising"
                    /\ err[r] = ApiException(c[1].status)

\* C24: read_namespace was answered 500 and create_job is raising that error
C24_Witness ==
    \E r \in Requests :
        /\ op[r] = "create_job"
        /\ api_calls[r] = <<Call("read_namespace", 500)>>
        /\ pc[r] = "raising"
        /\ err[r].status = 500

\* C25: create_namespaced_job is sent only after, in the same create_job
\* call, read_namespace was answered 200 or was answered 404 and
\* create_namespace then succeeded; when create_namespace fails, with 409 as
\* with any other status, create_job raises that error and sends no
\* create_namespaced_job.
C25_JobSentOnlyWithNamespaceEnsured ==
    \A r \in Requests : op[r] = "create_job" =>
        LET c == api_calls[r]
            present == Len(c) >= 1 /\ c[1] = Call("read_namespace", 200)
            created == /\ Len(c) >= 2
                       /\ c[1] = Call("read_namespace", 404)
                       /\ c[2] = Call("auto_create_namespace", 200)
        IN
        /\ pc[r] = "create_namespaced_job" =>
              \/ present /\ Len(c) = 1
              \/ created /\ Len(c) = 2
        /\ \A i \in 1..Len(c) : c[i].method = "create_namespaced_job" =>
              \/ present /\ i = 2
              \/ created /\ i = 3
        /\ \A i \in 1..Len(c) :
              (c[i].method = "auto_create_namespace" /\ c[i].status # 200) =>
                    /\ Len(c) = i
                    /\ pc[r] = "raising"
                    /\ err[r] = ApiException(c[i].status)

\* C25: read_namespace was answered 404, create_namespace 409, and create_job
\* is raising the 409 without having sent the Job
C25_Witness ==
    \E r \in Requests :
        /\ op[r] = "create_job"
        /\ api_calls[r] = <<Call("read_namespace", 404),
                            Call("auto_create_namespace", 409)>>
        /\ pc[r] = "raising"
        /\ err[r].status = 409

\* a counter of the Job status, 0 when it is absent
Count(x) == IF x = None THEN 0 ELSE x.n

\* the state by the priority succeeded, failed, active
StateByPriority(j) ==
    IF Count(j.status.succeeded) > 0 THEN "completed"
    ELSE IF Count(j.status.failed) > 0 THEN "failed"
    ELSE IF Count(j.status.active) > 0 THEN "running"
    ELSE "unknown"

\* C26: the state get_job_status returns is 'completed' if succeeded > 0,
\* otherwise 'failed' if failed > 0, otherwise 'running' if active > 0,
\* otherwise 'unknown'; the counters it returns are those of the Job, 0 for
\* an absent one.
C26_StateByFixedPriority ==
    [][\A r \in Requests :
         (pc[r] = "read_namespaced_job" /\ pc'[r] = "returning") =>
            /\ result'[r].d["state"] = Str(StateByPriority(job))
            /\ result'[r].d["active"] = PyInt(Count(job.status.active))
            /\ result'[r].d["succeeded"] = PyInt(Count(job.status.succeeded))
            /\ result'[r].d["failed"] = PyInt(Count(job.status.failed))]_vars

\* C26: get_job_status read a Job with one succeeded and two failed pods
\* and reports it completed
C26_Witness ==
    \E r \in Requests :
        /\ pc[r] = "returning"
        /\ op[r] = "get_job_status"
        /\ job.status.succeeded = PyInt(1)
        /\ job.status.failed = PyInt(2)
        /\ result[r].d["state"] = Str("completed")
        /\ result[r].d["active"] = PyInt(0)

\* C27: an exception that reaches one of the five route handlers always ends
\* as an HTTPException: with the status of the ApiException the service
\* raised, 500 when that exception carries none, and 500 for every other
\* exception, a failed build in get_eks_service() included.  A 401 or 403
\* goes out as 401 or 403 and leaves the published session as it is.
C27_EveryExceptionMappedToHttpError ==
    [][\A r \in Requests : pc[r] = "raising" =>
         /\ op[r] \in Routes
         /\ err[r] # NoErr
         /\ pc'[r] \in {"raising", "done"}
         /\ pc'[r] = "done" =>
               /\ response'[r].kind = "HTTPException"
               /\ (err[r].type = "ApiException" /\ err[r].status # 0)
                     => response'[r].status_code = err[r].status
               /\ (err[r].type = "ApiException" /\ err[r].status = 0)
                     => response'[r].status_code = 500
               /\ err[r].type # "ApiException"
                     => response'[r].status_code = 500
               /\ InBuild(r) => response'[r].status_code = 500
               /\ (err[r].type = "ApiException" /\ err[r].status \in {401, 403})
                     => /\ _service_instance' = _service_instance
                        /\ _service_instance # 0
                        /\ heap'[_service_instance] = heap[_service_instance]
                        /\ svc'[r] = svc[r]]_vars

\* C27: a handler answered 403 after the cluster refused its call; the
\* session it used is still the published one
C27_Witness ==
    \E r \in Requests :
        /\ pc[r] = "done"
        /\ response[r] = [kind |-> "HTTPException", status_code |-> 403]
        /\ svc[r] # 0
        /\ svc[r] = _service_instance
        /\ svc[r] \in rejected
        /\ svc[r] \notin expired
        /\ heap[svc[r]]._token # None

====
